---- MODULE Spec2Model ----
(***************************************************************************)
(* Title normalisation pipeline of shopify_seo: the length enforcer, the   *)
(* title extractor and the rewrite orchestrator of                         *)
(* src/shopify_seo/processor.py, as operators on strings, each exercised   *)
(* by its own specification, and the batch run process_csv over a CSV      *)
(* file, row by row, with the generation service, the input file, the      *)
(* standard output and the output file as its environment.                 *)
(*                                                                         *)
(* A string is a sequence of characters; a character is a one-symbol       *)
(* TLA+ string.  Python's None is the value None below.                    *)
(***************************************************************************)
EXTENDS Integers, Sequences, FiniteSets, TLC

VARIABLES
    pc,       \* where the caller is: "input", then "enforced", "extracted",
              \* or "service" (inside ollama.chat) and then "rewritten"; in a
              \* run of process_csv "rows", "row_service" and "done"
    title,    \* the title argument of _enforce_length and _rewrite_title
    maxLen,   \* config.max_title_length
    raw,      \* the content argument of _extract_title_from_model_output
    nfrags,   \* how many fragments raw is made of
    out,      \* the value returned
    exc,      \* the exception that left the call, "none" when it returned
    resp,     \* what ollama.chat did: the shape of its response, or a failure
    extracted,\* _rewrite_title's local of that name, None while unassigned
    calls,    \* the calls of ollama.chat made so far: who made each
    maxRetries, \* config.max_retries
    stdout,   \* sys.stdout: "ok", or "broken" when writing to it raises
    file,     \* the input CSV file: its header, its rows, whether it reads
    run,      \* the locals of process_csv: df, the counters, the new column
    result,   \* the ProcessingResult returned, NoResult before
    written,  \* the output CSV file, NoOutput while there is none
    replies   \* what the service did for each row examined so far

vars == <<pc, title, maxLen, raw, nfrags, out, exc, resp, extracted,
          calls, maxRetries, stdout, file, run, result, written, replies>>

\* the state of a rewrite, untouched by the calls to the two pure functions
rwVars == <<resp, extracted>>

\* the generation service's call log, the configuration and the output stream
envVars == <<calls, maxRetries, stdout>>

\* the state of a run of process_csv
csvVars == <<file, run, result, written, replies>>

\* ------------------------------------------------------------------ bounds
MaxTitleLen == 7    \* longest title the enforcer is given
MaxBound == 4       \* largest max_title_length tried
MaxFrags == 4       \* most fragments a raw model output is made of
MaxRwTitleLen == 3  \* longest original title a rewrite is given
MaxRwFrags == 3     \* most fragments the service's reply to a rewrite is made of

\* -------------------------------------------------------------- characters
SP == " "
TAB == "\t"
NL == "\n"
DQ == "\""
SQ == "'"
LDQ == "<ldquo>"    \* U+201C, left curly double quote
RDQ == "<rdquo>"    \* U+201D, right curly double quote
LBRACE == "{"
RBRACE == "}"
COLON == ":"

\* Python's None (title or "", content or "")
None == <<"<None>">>

\* str.isspace(): what str.strip() and str.split() treat as whitespace
IsSpace(c) == c \in {SP, TAB, NL}

\* (x or ""): None and "" are falsy
OrEmpty(x) == IF x = None THEN <<>> ELSE x

Min(a, b) == IF a < b THEN a ELSE b

\* s[:n]
Take(s, n) == SubSeq(s, 1, Min(n, Len(s)))

\* s.strip(chars): remove leading and trailing characters of the set
StripSet(s, chars) ==
    LET keep == {i \in 1..Len(s) : s[i] \notin chars}
    IN  IF keep = {} THEN <<>>
        ELSE LET lo == CHOOSE i \in keep : \A j \in keep : i <= j
                 hi == CHOOSE i \in keep : \A j \in keep : j <= i
             IN  SubSeq(s, lo, hi)

\* s.strip()
Strip(s) == StripSet(s, {SP, TAB, NL})

\* s.rsplit(" ", 1)[0]: the part before the last space, or s when it has none
RSplitSpace(s) ==
    LET sp == {i \in 1..Len(s) : s[i] = SP}
    IN  IF sp = {} THEN s
        ELSE SubSeq(s, 1, (CHOOSE i \in sp : \A j \in sp : j <= i) - 1)

\* ------------------------------------------------------------ _enforce_length
\* faulty variant: rsplit applied to the whole title, the slice forgotten
EnforceNoSlice(t, n) ==
    LET trimmed == RSplitSpace(t)
    IN  IF Len(t) <= n THEN t
        ELSE Strip(IF trimmed = <<>> THEN Take(t, n) ELSE trimmed)

\* faulty variant: the final .strip() forgotten
EnforceNoStrip(t, n) ==
    LET trimmed == RSplitSpace(Take(t, n))
    IN  IF Len(t) <= n THEN t
        ELSE IF trimmed = <<>> THEN Take(t, n) ELSE trimmed

\* faulty variant: < for <= in the within-bound test
EnforceStrict(t, n) ==
    LET trimmed == RSplitSpace(Take(t, n))
    IN  IF Len(t) < n THEN t
        ELSE Strip(IF trimmed = <<>> THEN Take(t, n) ELSE trimmed)

\* lines 121-131, on t = (title or "").strip()
EnforceStripped(t, n) ==
    LET trimmed == RSplitSpace(Take(t, n))
    IN  IF Len(t) <= n THEN t
        ELSE Strip(IF trimmed = <<>> THEN Take(t, n) ELSE trimmed)

EnforceLength(s, n) == EnforceStripped(Strip(OrEmpty(s)), n)

\* ------------------------------------------------------------------ helpers
Indices(s, chars) == {i \in 1..Len(s) : s[i] \in chars}

MinOf(S) == CHOOSE i \in S : \A j \in S : i <= j

MaxOf(S) == CHOOSE i \in S : \A j \in S : j <= i

UpperLetters ==
    <<"A", "B", "C", "D", "E", "F", "G", "H", "I", "J", "K", "L", "M",
      "N", "O", "P", "Q", "R", "S", "T", "U", "V", "W", "X", "Y", "Z">>

LowerLetters ==
    <<"a", "b", "c", "d", "e", "f", "g", "h", "i", "j", "k", "l", "m",
      "n", "o", "p", "q", "r", "s", "t", "u", "v", "w", "x", "y", "z">>

\* faulty variant: the pattern compared without re.I
LowerOff(c) == c

\* case folding of one character (flags=re.I)
Lower(c) ==
    IF \E i \in 1..26 : UpperLetters[i] = c
    THEN LowerLetters[CHOOSE i \in 1..26 : UpperLetters[i] = c]
    ELSE c

\* ---------------------------------------------------------------- json.loads
\* json.loads(s) on the strings of this model: the alphabet has no comma,
\* bracket, digit, backslash or literal (true, false, null), so a document is
\* an object with at most one member whose value is a string or an object.
\* A parsed value is [t |-> "str", s |-> characters] or
\* [t |-> "dict", m |-> <<>> or <<[k |-> key, v |-> value]>>].
JsonWs == {SP, TAB, NL}

\* characters below U+0020, refused inside a string (strict=True)
ControlChars == {TAB, NL}

JsonFail == [ok |-> FALSE, end |-> 0, val |-> <<>>]

\* the first index >= i that holds no JSON whitespace (Len(s) + 1 at the end)
SkipWs(s, i) ==
    LET rest == {j \in i..Len(s) : s[j] \notin JsonWs}
    IN  IF rest = {} THEN Len(s) + 1 ELSE MinOf(rest)

\* scanstring: s[i-1] is the opening quote
ScanString(s, i) ==
    LET q == {j \in i..Len(s) : s[j] = DQ}
    IN  IF q = {} THEN JsonFail
        ELSE LET e == MinOf(q)
             IN  IF \E j \in i..(e - 1) : s[j] \in ControlChars
                 THEN JsonFail
                 ELSE [ok |-> TRUE, end |-> e + 1,
                       val |-> [t |-> "str", s |-> SubSeq(s, i, e - 1)]]

RECURSIVE ScanValue(_, _)

\* after the member's value: the closing brace (there is no comma to go on)
ScanObjectEnd(s, key, v, e) ==
    IF e > Len(s) \/ s[e] # RBRACE THEN JsonFail
    ELSE [ok |-> TRUE, end |-> e + 1,
          val |-> [t |-> "dict", m |-> <<[k |-> key.val.s, v |-> v.val]>>]]

\* the member's value v, then white space
ScanMemberValue(s, key, v) ==
    IF ~v.ok THEN JsonFail ELSE ScanObjectEnd(s, key, v, SkipWs(s, v.end))

\* the colon at index c, white space, then the value
ScanMemberColon(s, key, c) ==
    IF c > Len(s) \/ s[c] # COLON THEN JsonFail
    ELSE ScanMemberValue(s, key, ScanValue(s, SkipWs(s, c + 1)))

\* the member's key, then white space
ScanMember(s, key) ==
    IF ~key.ok THEN JsonFail ELSE ScanMemberColon(s, key, SkipWs(s, key.end))

\* the first character of the object's body, at index j: "}" or a key
ScanObjectAt(s, j) ==
    IF j > Len(s) THEN JsonFail
    ELSE IF s[j] = RBRACE
    THEN [ok |-> TRUE, end |-> j + 1, val |-> [t |-> "dict", m |-> <<>>]]
    ELSE IF s[j] # DQ THEN JsonFail
    ELSE ScanMember(s, ScanString(s, j + 1))

\* JSONObject: s[i-1] is the opening brace
ScanObject(s, i) == ScanObjectAt(s, SkipWs(s, i))

\* scan_once at index i
ScanValue(s, i) ==
    IF i > Len(s) THEN JsonFail
    ELSE IF s[i] = DQ THEN ScanString(s, i + 1)
    ELSE IF s[i] = LBRACE THEN ScanObject(s, i + 1)
    ELSE JsonFail

\* the document is the value v and white space, nothing more
JsonDocument(s, v) ==
    IF v.ok /\ SkipWs(s, v.end) = Len(s) + 1
    THEN [exc |-> "none", val |-> v.val]
    ELSE [exc |-> "JSONDecodeError", val |-> <<>>]

\* json.loads: [exc |-> "none", val |-> value] or [exc |-> "JSONDecodeError"]
JsonLoads(s) == JsonDocument(s, ScanValue(s, SkipWs(s, 1)))

\* bool(value)
Truthy(v) == IF v.t = "str" THEN v.s # <<>> ELSE v.m # <<>>

\* repr of a str: single quotes, double quotes when it holds ' and no "
ReprStr(s) ==
    LET dbl == (\E i \in 1..Len(s) : s[i] = SQ) /\ ~(\E i \in 1..Len(s) : s[i] = DQ)
        esc(c) == IF c = NL THEN <<"\\", "n">>
                  ELSE IF c = TAB THEN <<"\\", "t">>
                  ELSE IF c = SQ /\ ~dbl THEN <<"\\", SQ>>
                  ELSE <<c>>
        F[i \in 0..Len(s)] == IF i = 0 THEN <<>> ELSE F[i - 1] \o esc(s[i])
    IN  IF dbl THEN <<DQ>> \o F[Len(s)] \o <<DQ>>
        ELSE <<SQ>> \o F[Len(s)] \o <<SQ>>

RECURSIVE PyStr(_)

\* str(value): a str is itself, a dict its repr
PyStr(v) ==
    IF v.t = "str" THEN v.s
    ELSE IF v.m = <<>> THEN <<LBRACE, RBRACE>>
    ELSE <<LBRACE>> \o ReprStr(v.m[1].k) \o <<COLON, SP>>
         \o (IF v.m[1].v.t = "str" THEN ReprStr(v.m[1].v.s) ELSE PyStr(v.m[1].v))
         \o <<RBRACE>>

\* ------------------------------------------ _extract_title_from_model_output
\* what a rule or the function gives back: a value, or an exception
Ret(v) == [exc |-> "none", val |-> v]

Raise(e) == [exc |-> e, val |-> <<>>]

\* a rule that found nothing: control goes on to the next rule
Nothing == [exc |-> "none", val |-> None]

\* re.search(r'\{.*\}', content, flags=re.S).group(): from the first "{" to
\* the last "}" (greedy, "." matches newlines too); None when there is none
BraceMatch(s) ==
    LET o == Indices(s, {LBRACE})
        c == Indices(s, {RBRACE})
    IN  IF o # {} /\ c # {} /\ MinOf(o) < MaxOf(c)
        THEN SubSeq(s, MinOf(o), MaxOf(c))
        ELSE None

\* for key in ("title", "new_title", "rewritten_title")
TitleKeys ==
    << <<"t", "i", "t", "l", "e">>,
       <<"n", "e", "w", "_", "t", "i", "t", "l", "e">>,
       <<"r", "e", "w", "r", "i", "t", "t", "e", "n", "_", "t", "i", "t", "l", "e">> >>

\* faulty variant: only a bare KeyError is caught
CaughtKeyErrorOnly(e) == e = "KeyError"

\* except (json.JSONDecodeError, KeyError, ValueError)
Caught(e) == e \in {"JSONDecodeError", "KeyError", "ValueError"}

\* str(obj[key]).strip()
JsonValue(v) == Strip(PyStr(v))

\* key in obj and obj[key], for one of the title keys
HasTitle(obj) ==
    /\ obj.m # <<>>
    /\ \E i \in 1..Len(TitleKeys) : obj.m[1].k = TitleKeys[i]
    /\ Truthy(obj.m[1].v)

\* lines 80-85, r what json.loads gave or raised
JsonRuleLoaded(r) ==
    IF r.exc # "none"
    THEN IF Caught(r.exc) THEN Nothing ELSE Raise(r.exc)
    ELSE IF HasTitle(r.val) THEN Ret(JsonValue(r.val.m[1].v))
    ELSE Nothing

\* lines 79-85, m the match or None
JsonRuleMatched(m) == IF m = None THEN Nothing ELSE JsonRuleLoaded(JsonLoads(m))

\* rule 1, lines 77-85: the value of the first title key that is present and
\* truthy; Nothing when there is no match, no such key, or a caught failure
JsonRule(content) == JsonRuleMatched(BraceMatch(content))

\* the character class of line 88: straight double quotes only
QuoteChars == {DQ}

\* the class as src/src/process.py line 48 has it: straight and curly
QuoteCharsLegacy == {DQ, LDQ, RDQ}

\* re.search(r'[q](.*?)[q]', s).group(1): the text between the first quote
\* that has another quote after it on the same line and that next quote;
\* None when there is no match
QuotedSpan(s, quotes) ==
    LET q == Indices(s, quotes)
        nxt(i) == MinOf({j \in q : j > i})
        ok == {i \in q : /\ \E j \in q : j > i
                         /\ \A k \in (i + 1)..(nxt(i) - 1) : s[k] # NL}
    IN  IF ok = {} THEN None
        ELSE SubSeq(s, MinOf(ok) + 1, nxt(MinOf(ok)) - 1)

\* lines 89-90, g the group or None
QuotedRuleMatched(g) ==
    IF g # None /\ Strip(g) # <<>> THEN Ret(Strip(g)) ELSE Nothing

\* rule 2, lines 88-90
QuotedRule(content) == QuotedRuleMatched(QuotedSpan(content, QuoteChars))

\* [ln.strip() for ln in content.splitlines() if ln.strip()][-1]; None when
\* every line is blank
LastLine(s) ==
    LET nl == Indices(s, {NL})
        starts == {1} \cup {i + 1 : i \in nl}
        stop(a) == IF \E i \in nl : i >= a
                   THEN MinOf({i \in nl : i >= a}) - 1
                   ELSE Len(s)
        full == {a \in starts : Strip(SubSeq(s, a, stop(a))) # <<>>}
    IN  IF full = {} THEN None
        ELSE Strip(SubSeq(s, MaxOf(full), stop(MaxOf(full))))

\* the labels of the pattern of line 97
LabelPrefixes ==
    { <<"N", "e", "w", " ", "T", "i", "t", "l", "e", ":">>,
      <<"T", "i", "t", "l", "e", ":">>,
      <<"R", "e", "w", "r", "i", "t", "t", "e", "n", " ", "T", "i", "t", "l", "e", ":">>,
      <<"H", "e", "r", "e", "'", "s", " ", "a", " ", "r", "e", "w", "r", "i", "t", "t",
        "e", "n", " ", "t", "i", "t", "l", "e", " ", "t", "h", "a", "t", " ", "i", "s",
        " ", "c", "o", "n", "c", "i", "s", "e", ":">> }

\* s starts with label, letter case ignored
HasLabel(s, label) ==
    /\ Len(s) >= Len(label)
    /\ \A i \in 1..Len(label) : Lower(s[i]) = Lower(label[i])

\* s[n:]
Drop(s, n) == SubSeq(s, Min(n, Len(s)) + 1, Len(s))

\* s.lstrip() of whitespace, the \s* of the pattern
LStripWs(s) ==
    LET keep == {i \in 1..Len(s) : ~IsSpace(s[i])}
    IN  IF keep = {} THEN <<>> ELSE SubSeq(s, MinOf(keep), Len(s))

\* re.sub(r'^(label|...)\s*', '', last, flags=re.I): no two labels start alike,
\* so at most one matches
RemoveLabel(s) ==
    IF \E l \in LabelPrefixes : HasLabel(s, l)
    THEN LStripWs(Drop(s, Len(CHOOSE l \in LabelPrefixes : HasLabel(s, l))))
    ELSE s

\* if last: return last (lines 103-104)
IfNonEmpty(v) == IF v # <<>> THEN Ret(v) ELSE Nothing

\* lines 94-104, last the last non-empty line or None
LastLineRuleOn(last) ==
    IF last = None THEN Nothing
    ELSE IfNonEmpty(StripSet(RemoveLabel(last), {SP, DQ, SQ}))

\* rule 3, lines 93-104
LastLineRule(content) == LastLineRuleOn(LastLine(content))

\* rule 4, line 107: " ".join(content.split())
CollapseWs(s) ==
    LET t == Strip(s)
        F[i \in 0..Len(t)] ==
            IF i = 0 THEN <<>>
            ELSE IF ~IsSpace(t[i]) THEN Append(F[i - 1], t[i])
            ELSE IF IsSpace(t[i - 1]) THEN F[i - 1]
            ELSE Append(F[i - 1], SP)
    IN  F[Len(t)]

\* what rule r returned, or else what the rules after it give
OrElse(r, rest) == IF r # Nothing THEN r ELSE rest

\* rules 2 to 4, lines 87-108, on the stripped non-empty content
AfterJson(content) ==
    OrElse(QuotedRule(content),
           OrElse(LastLineRule(content), Ret(CollapseWs(content))))

\* lines 73-108, on the stripped content
ExtractStripped(content) ==
    IF content = <<>> THEN Ret(<<>>)
    ELSE OrElse(JsonRule(content), AfterJson(content))

\* lines 72-108
ExtractTitle(c0) == ExtractStripped(Strip(OrEmpty(c0)))

\* ------------------------------------------------------------- environment
\* config.max_retries: the default of config.py, and none at all
RetryChoices == {0, 3}

\* print(...): raises when the stream cannot take the text (an encoding
\* without the character, a closed pipe, a full disk)
PrintRaises(so) == so = "broken"

\* no input file, no run of process_csv
NoFile == [header |-> {}, rows |-> <<>>, state |-> "none"]

NoRun == [is_valid |-> FALSE, error_msg |-> None, df |-> <<>>, total |-> 0,
          active |-> 0, edited |-> <<>>, count |-> 0, raised |-> "none"]

\* no ProcessingResult yet
NoResult ==
    [success |-> FALSE, output_file |-> "<none>", total_products |-> 0,
     active_products |-> 0, edited_titles |-> 0, error_message |-> None]

\* no output file
NoOutput == [header |-> {}, rows |-> <<>>]

\* outside process_csv: nothing read, nothing returned, nothing written
NoCsv ==
    /\ file = NoFile
    /\ run = NoRun
    /\ result = NoResult
    /\ written = NoOutput
    /\ replies = <<>>

\* nobody has called the service; the stream takes what is printed
QuietEnv ==
    /\ calls = <<>>
    /\ maxRetries = 3
    /\ stdout = "ok"

\* ------------------------------------------------- specification: enforcer
TitleChars == {"a", SP, TAB}

InitEnforce ==
    /\ pc = "input"
    /\ title = <<>>
    /\ maxLen \in 1..MaxBound
    /\ raw = <<>>
    /\ nfrags = 0
    /\ out = <<>>
    /\ exc = "none"
    /\ resp = "none"
    /\ extracted = None
    /\ QuietEnv
    /\ NoCsv

\* the caller passes a longer title
TitleAppend ==
    /\ pc = "input"
    /\ title # None
    /\ Len(title) < MaxTitleLen
    /\ \E c \in TitleChars : title' = Append(title, c)
    /\ UNCHANGED <<pc, maxLen, raw, nfrags, out, exc, rwVars, envVars, csvVars>>

\* the caller passes None
TitleNone ==
    /\ pc = "input"
    /\ title = <<>>
    /\ title' = None
    /\ UNCHANGED <<pc, maxLen, raw, nfrags, out, exc, rwVars, envVars, csvVars>>

\* processor._enforce_length(title)
CallEnforce ==
    /\ pc = "input"
    /\ out' = EnforceLength(title, maxLen)
    /\ pc' = "enforced"
    /\ UNCHANGED <<title, maxLen, raw, nfrags, exc, rwVars, envVars, csvVars>>

NextEnforce == TitleAppend \/ TitleNone \/ CallEnforce

SpecEnforce == InitEnforce /\ [][NextEnforce]_vars

\* ------------------------------------------------ specification: extractor
\* what the generation service's text is made of: the pieces of a JSON
\* answer, a word, quotes, braces, white space and labels
Fragments ==
    { <<LBRACE, DQ, "t", "i", "t", "l", "e", DQ, COLON, DQ>>,
      <<"F", "o", "o">>,
      <<DQ, RBRACE>>,
      <<DQ>>,
      <<RBRACE>>,
      <<LBRACE>>,
      <<SP>>,
      <<NL>>,
      <<"T", "i", "t", "l", "e", COLON>>,
      <<"t", "I", "T", "L", "E", COLON>>,
      <<SQ>>,
      <<LDQ, "F", "o", "o", RDQ>> }

InitExtract ==
    /\ pc = "input"
    /\ title = <<>>
    /\ maxLen = 1
    /\ raw = <<>>
    /\ nfrags = 0
    /\ out = <<>>
    /\ exc = "none"
    /\ resp = "none"
    /\ extracted = None
    /\ QuietEnv
    /\ NoCsv

\* the service's text grows by one fragment
RawAppend ==
    /\ pc = "input"
    /\ raw # None
    /\ nfrags < MaxFrags
    /\ \E f \in Fragments : raw' = raw \o f
    /\ nfrags' = nfrags + 1
    /\ UNCHANGED <<pc, title, maxLen, out, exc, rwVars, envVars, csvVars>>

\* the response carries no text
RawNone ==
    /\ pc = "input"
    /\ raw = <<>>
    /\ raw' = None
    /\ UNCHANGED <<pc, title, maxLen, nfrags, out, exc, rwVars, envVars, csvVars>>

\* the call ends with r: the value returned or the exception raised
Return(r) == out' = r.val /\ exc' = r.exc

\* processor._extract_title_from_model_output(raw)
CallExtract ==
    /\ pc = "input"
    /\ Return(ExtractTitle(raw))
    /\ pc' = "extracted"
    /\ UNCHANGED <<title, maxLen, raw, nfrags, rwVars, envVars, csvVars>>

NextExtract == RawAppend \/ RawNone \/ CallExtract

SpecExtract == InitExtract /\ [][NextExtract]_vars

\* ------------------------------------------------------------ _rewrite_title
\* what ollama.chat can do (line 149): return a response whose message has
\* text content, content None, no content key, or no message key; return
\* something that is no mapping; or raise
ResponseKinds ==
    {"content", "content_none", "no_content", "no_message", "malformed", "timeout"}

\* the exception that leaves lines 149-157, "none" when content is assigned
ChatException(kind) ==
    IF kind = "timeout" THEN "TimeoutError"
    ELSE IF kind = "malformed" THEN "AttributeError"
    ELSE "none"

\* response.get("message", {}).get("content", "")
ResponseContent(kind, text) ==
    IF kind = "content" THEN text
    ELSE IF kind = "content_none" THEN None
    ELSE <<>>

\* faulty variant: the handler of line 167 catches nothing
RewriteCaughtNothing(e) == FALSE

\* except Exception (line 167)
RewriteCaught(e) ==
    e \in {"TimeoutError", "AttributeError", "JSONDecodeError", "KeyError", "ValueError"}

\* lines 168-170, inside the handler: the print of line 168 writes to the
\* stream so and may raise, and then nothing is returned
RewriteHandler(t, n, so) ==
    IF PrintRaises(so)
    THEN [val |-> <<>>, extracted |-> None, exc |-> "OSError"]
    ELSE [val |-> EnforceLength(t, n), extracted |-> None, exc |-> "none"]

\* lines 167-170: the exception e is caught and the truncated original returned
RewriteFailed(t, n, e, so) ==
    IF RewriteCaught(e)
    THEN RewriteHandler(t, n, so)
    ELSE [val |-> <<>>, extracted |-> None, exc |-> e]

\* faulty variant: the final safety of lines 162-163 left out
RewriteFinalNoFallback(t, n, e, final) ==
    [val |-> final, extracted |-> e, exc |-> "none"]

\* lines 161-165, e the extracted title and final its enforced form
RewriteFinal(t, n, e, final) ==
    [val |-> IF final = <<>> THEN EnforceLength(t, n) ELSE final,
     extracted |-> e, exc |-> "none"]

\* lines 158-165, r what the extractor returned or raised
RewriteExtracted(t, n, r, so) ==
    IF r.exc # "none" THEN RewriteFailed(t, n, r.exc, so)
    ELSE RewriteFinal(t, n, r.val, EnforceLength(r.val, n))

\* lines 148-170: the title returned, the local extracted, the exception raised
RewriteTitle(t, kind, text, n, so) ==
    IF ChatException(kind) # "none"
    THEN RewriteFailed(t, n, ChatException(kind), so)
    ELSE RewriteExtracted(t, n, ExtractTitle(ResponseContent(kind, text)), so)

\* faulty variant: a failed call is made again, max_retries times
ChatCallsRetrying(caller, kind, retries) ==
    IF ChatException(kind) # "none"
    THEN [j \in 1..(retries + 1) |-> caller]
    ELSE <<caller>>

\* lines 149-155: ollama.chat is called once by caller (a row number, 0
\* outside process_csv), whatever it does and whatever max_retries is:
\* the calls this invocation adds to the log
ChatCalls(caller, kind, retries) == <<caller>>

\* ------------------------------------------------- specification: rewriter
RwTitleChars == {"a", SP}

RwFragments ==
    { <<SP>>,
      <<NL>>,
      <<"F", "o", "o">>,
      <<LBRACE, DQ, "t", "i", "t", "l", "e", DQ, COLON, DQ>>,
      <<DQ, RBRACE>> }

InitRewrite ==
    /\ pc = "input"
    /\ title = <<>>
    /\ maxLen \in 1..MaxBound
    /\ raw = <<>>
    /\ nfrags = 0
    /\ out = <<>>
    /\ exc = "none"
    /\ resp = "none"
    /\ extracted = None
    /\ calls = <<>>
    /\ maxRetries \in RetryChoices
    /\ stdout \in {"ok", "broken"}
    /\ NoCsv

\* the caller passes a longer original title
RwTitleAppend ==
    /\ pc = "input"
    /\ Len(title) < MaxRwTitleLen
    /\ \E c \in RwTitleChars : title' = Append(title, c)
    /\ UNCHANGED <<pc, maxLen, raw, nfrags, out, exc, rwVars, envVars, csvVars>>

\* _rewrite_title(title, description) is entered and calls ollama.chat
RewriteCall ==
    /\ pc = "input"
    /\ pc' = "service"
    /\ UNCHANGED <<title, maxLen, raw, nfrags, out, exc, rwVars, envVars, csvVars>>

\* the service composes its text
ServiceAppend ==
    /\ pc = "service"
    /\ nfrags < MaxRwFrags
    /\ \E f \in RwFragments : raw' = raw \o f
    /\ nfrags' = nfrags + 1
    /\ UNCHANGED <<pc, title, maxLen, out, exc, rwVars, envVars, csvVars>>

\* _rewrite_title ends with r
ReturnRewrite(r) == Return(r) /\ extracted' = r.extracted

\* ollama.chat returns or raises, and _rewrite_title runs to its return
ServiceReplies ==
    /\ pc = "service"
    /\ \E kind \in ResponseKinds :
          /\ kind # "content" => raw = <<>>
          /\ resp' = kind
          /\ calls' = calls \o ChatCalls(0, kind, maxRetries)
          /\ ReturnRewrite(RewriteTitle(title, kind, raw, maxLen, stdout))
    /\ pc' = "rewritten"
    /\ UNCHANGED <<title, maxLen, raw, nfrags, maxRetries, stdout, csvVars>>

NextRewrite == RwTitleAppend \/ RewriteCall \/ ServiceAppend \/ ServiceReplies

SpecRewrite == InitRewrite /\ [][NextRewrite]_vars

\* ---------------------------------------------------------------- process_csv
CsvMaxLen == 3    \* config.max_title_length in the runs of process_csv
MaxRows == 2      \* most rows an input file has

\* the texts of the cells and of line 236 and 251
ACTIVE == <<"a", "c", "t", "i", "v", "e">>
ACTIVE_PADDED == <<" ", "A", "c", "t", "i", "v", "e">>
DRAFT == <<"d", "r", "a", "f", "t">>
NAN_STR == <<"n", "a", "n">>
N_A == <<"N", "/", "A">>
AA_AA == <<"a", "a", " ", "a", "a">>

\* pandas' missing value (NaN)
NaN == <<"<NaN>">>

\* the cell texts pd.read_csv takes for missing values (na_filter with the
\* default na_values), as far as the cells of this model go: the empty cell
\* and N/A
NaValues == {<<>>, N_A}

\* pd.read_csv(..., dtype=str): a cell of the file as the frame holds it
ReadCell(c) == IF c \in NaValues THEN NaN ELSE c

\* df.to_csv: a value of the frame as the file holds it (na_rep = "")
WriteCell(v) == IF v = NaN THEN <<>> ELSE v

\* str(value) of a cell of the frame: str(float("nan")) is "nan"
StrCell(v) == IF v = NaN THEN NAN_STR ELSE v

ReadRow(r) ==
    [status |-> ReadCell(r.status), title |-> ReadCell(r.title),
     desc |-> ReadCell(r.desc)]

\* pd.read_csv(input_file, dtype=str) (line 224): the rows of the frame
ReadCsv(rows) == [i \in 1..Len(rows) |-> ReadRow(rows[i])]

\* required_columns (line 184)
RequiredColumns == <<"Title", "Body (HTML)", "Status", "SEO Title", "SEO Description">>

IsMissingFrom(header, c) == c \notin header

\* faulty variant: only the first missing column is reported
MissingFirstOnly(header) ==
    LET miss == {i \in 1..Len(RequiredColumns) : IsMissingFrom(header, RequiredColumns[i])}
    IN  IF miss = {} THEN <<>> ELSE <<RequiredColumns[MinOf(miss)]>>

\* [col for col in required_columns if col not in df.columns] (line 186)
MissingColumns(header) ==
    LET F[i \in 0..Len(RequiredColumns)] ==
            IF i = 0 THEN <<>>
            ELSE IF IsMissingFrom(header, RequiredColumns[i])
            THEN Append(F[i - 1], RequiredColumns[i])
            ELSE F[i - 1]
    IN  F[Len(RequiredColumns)]

\* ', '.join(columns), as the pieces of the message
JoinColumns(cols) ==
    LET F[i \in 0..Len(cols)] ==
            IF i = 0 THEN <<>>
            ELSE IF i = 1 THEN <<cols[1]>>
            ELSE F[i - 1] \o <<", ", cols[i]>>
    IN  F[Len(cols)]

\* str(e): the message of an exception, never empty for the ones raised here
StrExc(e) == <<e>>

\* faulty variant: a file without the Status column passes
ValidateMissingLenient(header) ==
    IF MissingColumns(header \cup {"Status"}) # <<>>
    THEN [valid |-> FALSE,
          error |-> <<"Missing required columns: ">>
                    \o JoinColumns(MissingColumns(header \cup {"Status"}))]
    ELSE [valid |-> TRUE, error |-> <<>>]

\* lines 186-191: (is_valid, error_message) for a header that was read
ValidateMissing(header) ==
    IF MissingColumns(header) # <<>>
    THEN [valid |-> FALSE,
          error |-> <<"Missing required columns: ">>
                    \o JoinColumns(MissingColumns(header))]
    ELSE [valid |-> TRUE, error |-> <<>>]

\* validate_csv (lines 182-194): the read of line 183 raises for a file that
\* cannot be read, and the handler of line 193 turns that into a message
ValidateCsv(f) ==
    IF f.state = "unreadable"
    THEN [valid |-> FALSE,
          error |-> <<"Error reading CSV file: ">> \o StrExc("FileNotFoundError")]
    ELSE ValidateMissing(f.header)

\* s.lower()
LowerStr(s) == [i \in 1..Len(s) |-> Lower(s[i])]

\* a in b, for strings: a is a substring of b
IsSubstring(a, b) ==
    \E i \in 0..(Len(b) - Len(a)) : SubSeq(b, i + 1, i + Len(a)) = a

\* df["Status"].str.strip().str.lower().isin(["active", "draft"]) (line 236),
\* for one row: a missing value is in no list
InActiveMask(row) ==
    /\ row.status # NaN
    /\ LowerStr(Strip(row.status)) \in {ACTIVE, DRAFT}

\* active_mask[:k].sum(): how many of the first k rows the mask holds
ActiveCount(df, k) == Cardinality({i \in 1..k : InActiveMask(df[i])})

\* str(row.get("Status", "")).strip().lower() (line 246)
RowStatus(row) == LowerStr(Strip(StrCell(row.status)))

\* line 251: status not in ("active") or pd.isna(title) or
\* str(title).strip() == "".  ("active") is a string, not a tuple, so the
\* first test is a substring test
RowSkipped(row) ==
    \/ ~IsSubstring(RowStatus(row), ACTIVE)
    \/ row.title = NaN
    \/ Strip(StrCell(row.title)) = <<>>

\* line 255: already short enough
RowShort(row, n) == Len(StrCell(row.title)) <= n

\* the row reaches line 259 and is rewritten
RowRewritten(row, n) == ~RowSkipped(row) /\ ~RowShort(row, n)

\* faulty variant: only failures of reading are caught
ProcessCsvCaughtReads(e) == e \in {"FileNotFoundError"}

\* except Exception (line 287): the file gone at line 224, a print that
\* raises, a file that cannot be written
ProcessCsvCaught(e) == e \in {"FileNotFoundError", "OSError", "PermissionError"}

\* the ProcessingResult of lines 213-221 and 289-297
FailureResult(msg) ==
    [success |-> FALSE, output_file |-> "", total_products |-> 0,
     active_products |-> 0, edited_titles |-> 0, error_message |-> msg]

\* the ProcessingResult of lines 278-285
SuccessResult(r) ==
    [success |-> TRUE, output_file |-> "output.csv", total_products |-> r.total,
     active_products |-> r.active, edited_titles |-> r.count,
     error_message |-> None]

\* the exception e reaches the handler of line 287: what process_csv returns,
\* or the exception that leaves it
ProcessCsvRaised(e) ==
    IF ProcessCsvCaught(e)
    THEN [exc |-> "none", result |-> FailureResult(StrExc(e))]
    ELSE [exc |-> e, result |-> NoResult]

\* the file df.to_csv(output_file, index=False) writes (line 274): the header
\* with the new column, and every row of the frame
OutputFile(header, df, edited) ==
    [header |-> header \cup {"Edited Title"},
     rows |-> [i \in 1..Len(df) |->
                 [status |-> WriteCell(df[i].status),
                  title |-> WriteCell(df[i].title),
                  desc |-> WriteCell(df[i].desc),
                  edited |-> WriteCell(edited[i])]]]

\* what is left of an output file whose writing failed
Partial == [header |-> {"<partial>"}, rows |-> <<>>]

\* ----------------------------------------------- specification: process_csv
\* the headers of the input files: complete, with a column more, with one
\* and with two required columns missing
Headers ==
    { {"Title", "Body (HTML)", "Status", "SEO Title", "SEO Description"},
      {"Title", "Body (HTML)", "Status", "SEO Title", "SEO Description", "Vendor"},
      {"Title", "Body (HTML)", "SEO Title", "SEO Description"},
      {"Body (HTML)", "Status", "SEO Description"} }

\* the file reads; does not read at all; or reads once and then no more
FileStates == {"ok", "unreadable", "vanishes"}

\* the rows of the input files, as Status, SEO Title and SEO Description
RowChoices ==
    { [status |-> ACTIVE, title |-> AA_AA, desc |-> <<"d">>],
      [status |-> ACTIVE_PADDED, title |-> AA_AA, desc |-> N_A],
      [status |-> ACTIVE, title |-> <<"a", "a">>, desc |-> <<"d">>],
      [status |-> ACTIVE, title |-> <<>>, desc |-> <<"d">>],
      [status |-> DRAFT, title |-> AA_AA, desc |-> <<"d">>],
      [status |-> <<"a", "c", "t">>, title |-> AA_AA, desc |-> <<"d">>],
      [status |-> <<>>, title |-> AA_AA, desc |-> <<"d">>] }

\* what the service does when process_csv has a row rewritten: it fails, it
\* answers with a title, it answers with nothing
RowReplies ==
    { [kind |-> "timeout", text |-> <<>>],
      [kind |-> "content", text |-> <<"F", "o", "o">>],
      [kind |-> "content", text |-> <<SP>>] }

\* the entry of replies for a row that was not rewritten
NoReply == [kind |-> "none", text |-> <<>>]

InitCsv ==
    /\ pc = "input"
    /\ title = <<>>
    /\ maxLen = CsvMaxLen
    /\ raw = <<>>
    /\ nfrags = 0
    /\ out = <<>>
    /\ exc = "none"
    /\ resp = "none"
    /\ extracted = None
    /\ calls = <<>>
    /\ maxRetries = 3
    /\ stdout = "ok"
    /\ file \in [header : Headers, rows : {<<>>}, state : FileStates]
    /\ run = NoRun
    /\ result = NoResult
    /\ written = NoOutput
    /\ replies = <<>>

\* the locals of _rewrite_title and of the two pure functions, which a run
\* of process_csv does not show
fnVars == <<title, maxLen, raw, nfrags, out, resp, extracted>>

\* the input file has one row more
AddRow ==
    /\ pc = "input"
    /\ Len(file.rows) < MaxRows
    /\ \E r \in RowChoices : file' = [file EXCEPT !.rows = Append(@, r)]
    /\ UNCHANGED <<pc, exc, fnVars, envVars, run, result, written, replies>>

\* from now on writing to the standard output raises
StdoutBreaks ==
    /\ pc \in {"input", "rows", "row_service"}
    /\ stdout = "ok"
    /\ stdout' = "broken"
    /\ UNCHANGED <<pc, exc, fnVars, calls, maxRetries, csvVars>>

\* process_csv ends: it returns a result or an exception leaves it
Finish(r, where) ==
    /\ pc' = "done"
    /\ exc' = r.exc
    /\ result' = r.result
    /\ run' = [run EXCEPT !.raised = where]

\* line 211: is_valid, error_msg = self.validate_csv(input_file)
Validated(v) == [NoRun EXCEPT !.is_valid = v.valid, !.error_msg = v.error]

\* process_csv ends before a row is reached, v what validate_csv returned
FinishStart(r, where, v) ==
    /\ pc' = "done"
    /\ exc' = r.exc
    /\ result' = r.result
    /\ run' = [Validated(v) EXCEPT !.raised = where]

\* process_csv(input_file) from line 207 to line 241: the file is validated
\* and read, the mask and the totals are computed and printed
ProcessCsvStart ==
    /\ pc = "input"
    /\ IF ~ValidateCsv(file).valid
       THEN FinishStart([exc |-> "none",
                         result |-> FailureResult(ValidateCsv(file).error)],
                        "none", ValidateCsv(file))
       ELSE IF file.state = "vanishes"
       THEN FinishStart(ProcessCsvRaised("FileNotFoundError"), "read", ValidateCsv(file))
       ELSE IF PrintRaises(stdout)
       THEN FinishStart(ProcessCsvRaised("OSError"), "totals", ValidateCsv(file))
       ELSE /\ pc' = "rows"
            /\ run' = [Validated(ValidateCsv(file)) EXCEPT
                           !.df = ReadCsv(file.rows),
                           !.total = Len(file.rows),
                           !.active = ActiveCount(ReadCsv(file.rows), Len(file.rows))]
            /\ UNCHANGED <<exc, result>>
    /\ UNCHANGED <<fnVars, envVars, file, written, replies>>

\* row.name + 1 of the row df.apply hands to process_row next
NextRow == Len(run.edited) + 1

\* process_row for a row that is skipped or short enough (lines 246-256):
\* its title is returned as it is
RowPassesThrough ==
    /\ pc = "rows"
    /\ NextRow <= run.total
    /\ ~RowRewritten(run.df[NextRow], maxLen)
    /\ run' = [run EXCEPT !.edited = Append(@, run.df[NextRow].title)]
    /\ replies' = Append(replies, NoReply)
    /\ UNCHANGED <<pc, exc, fnVars, envVars, file, result, written>>

\* process_row reaches line 259: _rewrite_title is entered and calls ollama.chat
RowCallsService ==
    /\ pc = "rows"
    /\ NextRow <= run.total
    /\ RowRewritten(run.df[NextRow], maxLen)
    /\ pc' = "row_service"
    /\ UNCHANGED <<exc, fnVars, envVars, csvVars>>

\* faulty variant: a title that only lost its end is not counted
CountsUnlessPrefix(new_t, t) == new_t # Take(t, Len(new_t))

\* line 260: new_t != title
CountsAsEdited(new_t, t) == new_t # t

\* lines 259-271, r what _rewrite_title returned or raised for the row: the
\* exception leaves process_row and df.apply, or the row is counted, the
\* progress printed and the new title returned
RowRewriteDone(r, row) ==
    IF r.exc # "none" THEN Finish(ProcessCsvRaised(r.exc), "rewrite")
    ELSE IF PrintRaises(stdout) THEN Finish(ProcessCsvRaised("OSError"), "progress")
    ELSE /\ run' = [run EXCEPT !.edited = Append(@, r.val),
                               !.count = IF CountsAsEdited(r.val, row.title)
                                        THEN @ + 1 ELSE @]
         /\ pc' = "rows"
         /\ UNCHANGED <<exc, result>>

\* ollama.chat returns or raises, and process_row runs to its end
RowServiceReplies ==
    /\ pc = "row_service"
    /\ \E reply \in RowReplies :
          /\ calls' = calls \o ChatCalls(NextRow, reply.kind, maxRetries)
          /\ replies' = Append(replies, reply)
          /\ RowRewriteDone(RewriteTitle(StrCell(run.df[NextRow].title), reply.kind,
                                         reply.text, maxLen, stdout),
                            run.df[NextRow])
    /\ UNCHANGED <<fnVars, maxRetries, stdout, file, written>>

\* lines 273-285, every row done: the column is added and the file written,
\* or writing it raises
WriteCsv ==
    /\ pc = "rows"
    /\ NextRow > run.total
    /\ \E ok \in BOOLEAN :
          IF ok
          THEN /\ written' = OutputFile(file.header, run.df, run.edited)
               /\ Finish([exc |-> "none", result |-> SuccessResult(run)], "none")
          ELSE /\ written' = Partial
               /\ Finish(ProcessCsvRaised("PermissionError"), "write")
    /\ UNCHANGED <<fnVars, envVars, file, replies>>

NextCsv ==
    \/ AddRow
    \/ StdoutBreaks
    \/ ProcessCsvStart
    \/ RowPassesThrough
    \/ RowCallsService
    \/ RowServiceReplies
    \/ WriteCsv

SpecCsv == InitCsv /\ [][NextCsv]_vars

\* ---------------------------------------------------- claims on the enforcer
\* length of the first word of a stripped, non-empty string
FirstWordLen(t) ==
    LET ws == {i \in 1..Len(t) : IsSpace(t[i])}
    IN  IF ws = {} THEN Len(t)
        ELSE (CHOOSE i \in ws : \A j \in ws : i <= j) - 1

IsPrefix(p, s) == Len(p) <= Len(s) /\ SubSeq(s, 1, Len(p)) = p

\* C1: for every string s (None and whitespace-padded input included) and
\* every bound n > 0, the enforced title has length at most n.
C1_LengthBound == pc = "enforced" => Len(out) <= maxLen

\* C1 witness: an over-long title was cut to exactly the bound
C1_Witness ==
    /\ pc = "enforced"
    /\ title # None
    /\ Len(Strip(title)) > maxLen
    /\ Len(out) = maxLen

\* C2: when the stripped text is longer than the bound, the result is a
\* prefix of the stripped text that ends where a word ends (the character
\* after it in the stripped text is whitespace, of any kind), unless the
\* first word alone is longer than the bound, and then the result is the
\* first maxLen characters.
C2_WordBoundary ==
    (pc = "enforced" /\ title # None /\ Len(Strip(title)) > maxLen) =>
        LET t == Strip(title)
        IN  IF FirstWordLen(t) > maxLen
            THEN out = Strip(Take(t, maxLen))
            ELSE /\ IsPrefix(out, t)
                 /\ out # <<>>
                 /\ ~IsSpace(out[Len(out)])
                 /\ IsSpace(t[Len(out) + 1])

\* C3: enforce is idempotent: enforcing the enforced title changes nothing.
C3_Idempotent == pc = "enforced" => EnforceLength(out, maxLen) = out

\* C3 witness: the first application cut the title at a word boundary
C3_Witness ==
    /\ pc = "enforced"
    /\ title # None
    /\ Len(Strip(title)) > maxLen
    /\ out # <<>>
    /\ Len(out) < maxLen

\* C4: a string no longer than the bound (the empty string and None
\* included) comes back with its leading and trailing whitespace removed
\* and nothing else changed.
C4_WithinBound ==
    (pc = "enforced" /\ Len(OrEmpty(title)) <= maxLen) =>
        out = Strip(OrEmpty(title))

\* C4 witness: a padded title exactly as long as the bound
C4_Witness ==
    /\ pc = "enforced"
    /\ title # None
    /\ Len(title) = maxLen
    /\ IsSpace(title[1])
    /\ out # <<>>
    /\ Len(out) < Len(title)

\* --------------------------------------------------- claims on the extractor
\* the stripped content the rules work on
Content == Strip(OrEmpty(raw))

\* the JSON objects with key "title" and a non-empty string value that the
\* content holds anywhere: their values
TitleObjectValues(s) ==
    { JsonLoads(SubSeq(s, p[1], p[2])).val.m[1].v.s :
        p \in { q \in (1..Len(s)) \X (1..Len(s)) :
                  /\ q[1] < q[2]
                  /\ s[q[1]] = LBRACE
                  /\ s[q[2]] = RBRACE
                  /\ LET r == JsonLoads(SubSeq(s, q[1], q[2]))
                     IN  /\ r.exc = "none"
                         /\ r.val.m # <<>>
                         /\ r.val.m[1].k = TitleKeys[1]
                         /\ r.val.m[1].v.t = "str"
                         /\ r.val.m[1].v.s # <<>> } }

\* C5: whenever the raw output contains a JSON object with key title
\* (read as section 4.2 does: with a non-empty value), whatever surrounds
\* it, extract returns that value, trimmed.
C5_JsonTitle ==
    pc = "extracted" =>
        \A v \in TitleObjectValues(Content) : exc = "none" /\ out = Strip(v)

\* the value of a rule, empty when the rule found nothing
RuleVal(r) == IF r = Nothing THEN <<>> ELSE r.val

\* the first non-empty entry of a sequence of strings, empty when none is
FirstNonEmpty(rs) ==
    LET full == {i \in 1..Len(rs) : rs[i] # <<>>}
    IN  IF full = {} THEN <<>> ELSE rs[MinOf(full)]

\* C6: extract returns the result of the first rule, in the order JSON,
\* quoted text, last line, whole content, that yields a non-empty result;
\* so it returns the empty string only for empty or whitespace-only output.
C6_FirstNonEmptyRule ==
    pc = "extracted" =>
        /\ exc = "none"
        /\ out = FirstNonEmpty(<<RuleVal(JsonRule(Content)),
                                 RuleVal(QuotedRule(Content)),
                                 RuleVal(LastLineRule(Content)),
                                 CollapseWs(Content)>>)
        /\ (out = <<>> => Content = <<>>)

\* C7: with no parseable JSON title, when the first quoted span (straight or
\* curly double quotes) has non-blank inner content, extract returns that
\* inner content (trimmed).
C7_QuotedSpan ==
    LET g == QuotedSpan(Content, QuoteCharsLegacy)
    IN  (/\ pc = "extracted"
         /\ JsonRule(Content) = Nothing
         /\ g # None
         /\ Strip(g) # <<>>)
        => (exc = "none" /\ out = Strip(g))

\* the labels the claim names
ClaimLabels ==
    { <<"n", "e", "w", " ", "t", "i", "t", "l", "e", ":">>,
      <<"t", "i", "t", "l", "e", ":">>,
      <<"r", "e", "w", "r", "i", "t", "t", "e", "n", " ", "t", "i", "t", "l", "e", ":">> }

\* the lower-case form of a letter, whatever its case
LowerCase(c) ==
    IF \E i \in 1..26 : UpperLetters[i] = c
    THEN LowerLetters[CHOOSE i \in 1..26 : UpperLetters[i] = c]
    ELSE c

\* s is one of the claim's labels, in any letter case, and then more text
Labelled(s, l) ==
    /\ Len(s) > Len(l)
    /\ \A i \in 1..Len(l) : LowerCase(s[i]) = l[i]

\* the case of C8: no brace-delimited text, no double quote, and a last
\* non-empty line that is a label followed by some text
C8_Case ==
    /\ pc = "extracted"
    /\ BraceMatch(Content) = None
    /\ Indices(Content, {DQ, LDQ, RDQ}) = {}
    /\ LastLine(Content) # None
    /\ \E l \in ClaimLabels : Labelled(LastLine(Content), l)

\* the text after the label, surrounding white space removed
C8_Foo ==
    LET last == LastLine(Content)
        l == CHOOSE l \in ClaimLabels : Labelled(last, l)
    IN  Strip(SubSeq(last, Len(l) + 1, Len(last)))

\* C8 as stated: extract returns the last line with the label prefix and the
\* surrounding spaces removed.
C8_LabelledLine == C8_Case => (exc = "none" /\ out = C8_Foo)

\* C8 amended: extract returns the last line with the label prefix removed
\* and then the surrounding spaces and apostrophes removed, when something
\* is left of it.
C8_LabelledLineTrimmed ==
    (C8_Case /\ StripSet(C8_Foo, {SP, SQ}) # <<>>) =>
        (exc = "none" /\ out = StripSet(C8_Foo, {SP, SQ}))

\* C8 witness: a label in another letter case, the text ending with an
\* apostrophe that is removed
C8_Witness ==
    /\ C8_Case
    /\ LastLine(Content)[1] = "t"
    /\ C8_Foo[Len(C8_Foo)] = SQ
    /\ StripSet(C8_Foo, {SP, SQ}) # <<>>
    /\ out = StripSet(C8_Foo, {SP, SQ})

\* the brace-delimited text is not valid JSON, or has none of the title keys
C9_NoJsonTitle ==
    /\ BraceMatch(Content) # None
    /\ LET r == JsonLoads(BraceMatch(Content))
       IN  \/ r.exc # "none"
           \/ r.val.m = <<>>
           \/ \A i \in 1..Len(TitleKeys) : r.val.m[1].k # TitleKeys[i]

C10_BlankOutput ==
    \/ resp \in {"content_none", "no_content", "no_message"}
    \/ resp = "content" /\ Strip(raw) = <<>>

\* C10: when the service's output is empty or whitespace-only, or the
\* response has no message content, extract returns "" and rewrite returns
\* the length-enforced original title.
C10_BlankFallsBack ==
    (pc = "rewritten" /\ C10_BlankOutput) =>
        /\ exc = "none"
        /\ extracted = <<>>
        /\ out = EnforceLength(title, maxLen)

\* C10 witness: a whitespace-only reply, the original title cut to the bound
C10_Witness ==
    /\ pc = "rewritten"
    /\ resp = "content"
    /\ raw # <<>>
    /\ Strip(raw) = <<>>
    /\ Len(Strip(title)) > maxLen
    /\ out # <<>>
    /\ out = EnforceLength(title, maxLen)

\* the call of the service failed: it raised, or what it returned is no
\* response object
ServiceFailed == resp \in {"timeout", "malformed"}

\* C11: when the generation-service call fails in any way (timeout, transport
\* error, malformed response object), rewrite does not raise: it returns the
\* length-enforced original title.
C11_FailureFallsBack ==
    (pc = "rewritten" /\ ServiceFailed) =>
        /\ exc = "none"
        /\ out = EnforceLength(title, maxLen)

\* C12: every invocation of rewrite makes exactly one call to the generation
\* service, whether the call succeeds, returns unusable text or fails, and
\* whatever max_retries is; before the invocation there is none.
C12_OneCall ==
    /\ pc = "rewritten" => calls = <<0>>
    /\ pc \in {"input", "service"} => calls = <<>>

\* C12 witness: the call failed with max_retries = 3, and was made once
C12_Witness ==
    /\ pc = "rewritten"
    /\ ServiceFailed
    /\ maxRetries = 3
    /\ Len(calls) = 1

\* C13: for every original title and every behaviour of the service (any
\* text, or any failure), the title rewrite returns is at most maxLen long
\* and, when the original title is not blank, not empty.
C13_BoundedNonEmpty ==
    (pc = "rewritten" /\ exc = "none") =>
        /\ Len(out) <= maxLen
        /\ Strip(title) # <<>> => out # <<>>

\* C13 witness: the service's title was longer than the bound and was cut
C13_Witness ==
    /\ pc = "rewritten"
    /\ exc = "none"
    /\ resp = "content"
    /\ Strip(title) # <<>>
    /\ Len(extracted) > maxLen
    /\ out # <<>>
    /\ Len(out) <= maxLen

\* ------------------------------------------------------ claims on process_csv
\* the Status of row i of the input file, trimmed and lowercased
FileStatus(i) == LowerStr(Strip(file.rows[i].status))

\* the rows process_row has been through
RowsDone == 1..Len(replies)

\* C14: a row whose Status, trimmed and lowercased, is not "active" (whatever
\* else it holds) is never rewritten, however long its title: no service call
\* is made for it and its Edited Title equals its SEO Title.
C14_InactiveNeverRewritten ==
    \A i \in RowsDone :
        FileStatus(i) # ACTIVE =>
            /\ replies[i] = NoReply
            /\ \A j \in 1..Len(calls) : calls[j] # i
            /\ i <= Len(run.edited) => run.edited[i] = run.df[i].title

\* C15: every ProcessingResult returned has
\* edited_titles <= active_products <= total_products.
C15_CountsOrdered ==
    (pc = "done" /\ result # NoResult) =>
        /\ result.edited_titles <= result.active_products
        /\ result.active_products <= result.total_products

\* the five required columns
C16_Required == {"Title", "Body (HTML)", "Status", "SEO Title", "SEO Description"}

\* C16: when a required column is absent, process_csv ends before any row is
\* processed: no service call, no output file, and a result with
\* success = false, the three counts zero, an empty output_file and an error
\* message that is not empty.
C16_MissingColumnShortCircuits ==
    (pc = "done" /\ \E c \in C16_Required : c \notin file.header) =>
        /\ exc = "none"
        /\ result # NoResult
        /\ result.success = FALSE
        /\ result.total_products = 0
        /\ result.active_products = 0
        /\ result.edited_titles = 0
        /\ result.output_file = ""
        /\ result.error_message \notin {None, <<>>}
        /\ calls = <<>>
        /\ replies = <<>>
        /\ run.edited = <<>>
        /\ written = NoOutput

\* C16 witness: a file of two rows without the Status column was refused
C16_Witness ==
    /\ pc = "done"
    /\ "Status" \notin file.header
    /\ "Title" \in file.header
    /\ Len(file.rows) = 2
    /\ result # NoResult
    /\ result.success = FALSE
    /\ written = NoOutput

\* C17: process_csv is total: no failure of reading, of processing a row or
\* of writing leaves it as an exception; each is returned as a result with
\* success = false, the counts zero and the error message set; and a result
\* with success = true comes with the output file written.
C17_Total ==
    /\ exc = "none"
    /\ pc = "done" =>
        /\ result # NoResult
        /\ run.raised # "none" =>
              /\ result.success = FALSE
              /\ result.total_products = 0
              /\ result.active_products = 0
              /\ result.edited_titles = 0
              /\ result.error_message \notin {None, <<>>}
        /\ result.success =>
              /\ result.output_file # ""
              /\ written = OutputFile(file.header, run.df, run.edited)

\* C17 witness: the second row's progress print raised after the first row
\* was done, and the run ended with a failure result
C17_Witness ==
    /\ pc = "done"
    /\ run.raised = "progress"
    /\ Len(run.edited) = 1
    /\ result # NoResult
    /\ result.success = FALSE

\* C18: an exception raised in process_row outside the rewrite call (here by
\* the progress print) is caught at the row: the row keeps its original title
\* as Edited Title, the other rows are processed, and the run returns
\* success = true with an output file.
C18_RowExceptionAbsorbed ==
    (pc = "done" /\ run.raised = "progress") =>
        /\ result # NoResult
        /\ result.success
        /\ Len(run.edited) = run.total
        /\ written \notin {NoOutput, Partial}

\* the Edited Title of row i as its own Status, title and service reply make
\* it, with nothing else failing
C19_RowValue(i) ==
    IF replies[i] = NoReply THEN run.df[i].title
    ELSE RewriteTitle(StrCell(run.df[i].title), replies[i].kind, replies[i].text,
                      maxLen, "ok").val

\* C19: when the service call fails for a rewritten row (and nothing else
\* fails: the output stream and the output file take what is written), the
\* run ends with success = true, that row's Edited Title is the
\* length-enforced original, and every row's Edited Title is what its own
\* reply makes it, whatever happened to the calls for other rows.
C19_ServiceFailureContained ==
    (/\ pc = "done"
     /\ \E i \in RowsDone : replies[i].kind = "timeout"
     /\ stdout = "ok"
     /\ run.raised # "write") =>
        /\ result # NoResult
        /\ result.success
        /\ Len(run.edited) = Len(file.rows)
        /\ \A i \in RowsDone :
              /\ run.edited[i] = C19_RowValue(i)
              /\ replies[i].kind = "timeout" =>
                    run.edited[i] = EnforceLength(StrCell(run.df[i].title), maxLen)

\* C19 witness: the call failed for the first row and succeeded for the second
C19_Witness ==
    /\ pc = "done"
    /\ Len(replies) = 2
    /\ replies[1].kind = "timeout"
    /\ replies[2].kind = "content"
    /\ result # NoResult
    /\ result.success
    /\ run.edited[1] = <<"a", "a">>
    /\ run.edited[2] = <<"F", "o", "o">>

\* C20: on a successful run the output file has the input's rows in the
\* input's order, the input's columns with the values the input has, and the
\* one more column Edited Title.
C20_InputPreserved ==
    (pc = "done" /\ result # NoResult /\ result.success) =>
        /\ written.header = file.header \cup {"Edited Title"}
        /\ Len(written.rows) = Len(file.rows)
        /\ \A i \in 1..Len(file.rows) :
              /\ written.rows[i].status = file.rows[i].status
              /\ written.rows[i].title = file.rows[i].title
              /\ written.rows[i].desc = file.rows[i].desc

\* the column names a message names: its pieces but the lead and the commas
C21_Named(msg) ==
    {msg[i] : i \in {j \in 1..Len(msg) : j > 1 /\ msg[j] # ", "}}

\* C21: validate_csv never raises; it returns (True, "") exactly when the
\* file can be read and its header holds the five required columns (more
\* columns are allowed); when columns are missing it returns False and a
\* message that names the missing required columns, all of them and no other.
C21_ValidateCsv ==
    pc # "input" =>
        /\ exc = "none"
        /\ run.is_valid <=>
              (file.state # "unreadable" /\ C16_Required \subseteq file.header)
        /\ run.is_valid => run.error_msg = <<>>
        /\ (file.state # "unreadable" /\ ~(C16_Required \subseteq file.header)) =>
              /\ ~run.is_valid
              /\ run.error_msg[1] = "Missing required columns: "
              /\ C21_Named(run.error_msg) = C16_Required \ file.header

\* C21 witness: two required columns are missing and the message names both
C21_Witness ==
    /\ pc = "done"
    /\ file.state = "ok"
    /\ ~run.is_valid
    /\ C21_Named(run.error_msg) = {"Title", "SEO Title"}

\* ------------------------------------------ more claims on the three functions
\* the lengths, at most n, of the prefixes of t that end where a word ends:
\* the last character is no space and a space follows
C22_WordEnds(t, n) ==
    {k \in 1..Min(n, Len(t) - 1) : t[k] # SP /\ t[k + 1] = SP}

\* C22: when the stripped title is longer than the limit and a whole word
\* fits, the result is the longest prefix of the stripped title that ends at
\* the end of a word and is at most max_title_length long, a word that ends
\* exactly at position max_title_length included.
C22_LastWholeWord ==
    (/\ pc = "enforced"
     /\ title # None
     /\ Len(Strip(title)) > maxLen
     /\ C22_WordEnds(Strip(title), maxLen) # {}) =>
        out = Take(Strip(title), MaxOf(C22_WordEnds(Strip(title), maxLen)))

\* ------------------------------------------------- more claims on process_csv
\* the rows _rewrite_title was called for
C23_Rewritten == {i \in RowsDone : replies[i] # NoReply}

\* C23: on a successful run edited_titles is the number of rows rewrite was
\* called for: the title returned is at most max_title_length long and the
\* original is longer, so it differs and the row is counted, also when the
\* service call failed and the Edited Title is the cut original.
C23_EditedCountsRewrites ==
    (pc = "done" /\ result.success) =>
        /\ result.edited_titles = Cardinality(C23_Rewritten)
        /\ \A i \in C23_Rewritten :
              /\ Len(run.edited[i]) <= maxLen
              /\ maxLen < Len(StrCell(run.df[i].title))
              /\ run.edited[i] # run.df[i].title

\* C23 witness: two rows rewritten, the first by a failed call, both counted
C23_Witness ==
    /\ pc = "done"
    /\ result.success
    /\ Len(replies) = 2
    /\ replies[1].kind = "timeout"
    /\ replies[2].kind = "content"
    /\ run.edited[1] = Take(run.df[1].title, 2)
    /\ result.edited_titles = 2

\* C24: rows are examined in the order of the file and one at a time: while
\* a call is out for a row, every row before it is done and no row after it
\* has been examined; calls are made in increasing row order, at most one
\* for a row; and the i-th Edited Title of the output is the one of the
\* i-th row of the input.
C24_RowOrder ==
    /\ \A j \in 1..(Len(calls) - 1) : calls[j] < calls[j + 1]
    /\ \A j \in 1..Len(calls) : calls[j] \in C23_Rewritten
    /\ Len(replies) <= Len(file.rows)
    /\ Len(run.edited) <= Len(replies)
    /\ Len(replies) <= Len(run.edited) + 1
    /\ pc \in {"rows", "row_service"} => Len(replies) = Len(run.edited)
    /\ (pc = "done" /\ result.success) =>
          /\ Len(written.rows) = Len(file.rows)
          /\ \A i \in 1..Len(file.rows) :
                /\ written.rows[i].status = WriteCell(ReadCell(file.rows[i].status))
                /\ written.rows[i].title = WriteCell(ReadCell(file.rows[i].title))
                /\ written.rows[i].edited = WriteCell(C19_RowValue(i))

\* C24 witness: two rows rewritten one after the other, then the file written
C24_Witness ==
    /\ pc = "done"
    /\ result.success
    /\ calls = <<1, 2>>
    /\ file.rows[1].status # file.rows[2].status
    /\ replies[1] # replies[2]
    /\ written.rows[1].edited # written.rows[2].edited

====
